---- MODULE Spec2Model ----
(***************************************************************************)
(* Model of package pixel's Batch (batch.go) and of the geometry and       *)
(* image proxies it hands out.  Geometry buffers are Go slices: a header   *)
(* (backing array, offset, length) over a heap of backing arrays, so that  *)
(* Slice aliases, Copy does not, and SetLen reallocates past the capacity. *)
(***************************************************************************)
EXTENDS Integers, Sequences, FiniteSets, TLC

\* ------------------------------------------------------------------ bounds
\* Vertices of the longest buffer a caller writes or a proxy is resized to.
MaxLen == 3
\* Vertices the batch's container may hold; a merge past it is not taken.
MaxCont == 6
\* Geometry proxies the caller obtains (MakeTriangles, Slice, Copy).
MaxProxies == 2
\* Calls the caller makes on one Batch after constructing it.
MaxCalls == 4
\* Calls the caller makes on two Batches after constructing them.
MaxCallsXY == 3
\* Closures callQueue holds before a send blocks; the source makes it 32.
QueueCap == 2
\* Goroutines that submit to callQueue, the one running run included.
MaxGoroutines == 3
\* Calls the goroutines make in all.
MaxSubmits == 3

\* ------------------------------------------------------------------ values
\* A colour component is a multiple of 1/Unit, so that 1.0 is Unit.
Unit == 2 * 2

White == <<Unit, Unit, Unit, Unit>>

Half == <<2, 2, 2, Unit>>

Tint == <<Unit, 2, Unit, Unit>>

\* RGBA.Mul: the component-wise product.
Mul(c, d) == [i \in 1..4 |-> (c[i] * d[i]) \div Unit]

\* The identity matrix, row major, rows (a b tx), (c d ty), (0 0 1).
IM == <<1, 0, 0, 0, 1, 0, 0, 0, 1>>

\* Scale by 2, then move by (1, 0).
M2 == <<2, 0, 1, 0, 2, 0, 0, 0, 1>>

Matrices == {IM, M2}

\* Matrix.Project: the homogeneous product, de-homogenized.
Project(m, u) ==
    LET x == m[1] * u[1] + m[2] * u[2] + m[3]
        y == m[4] * u[1] + m[5] * u[2] + m[6]
        w == m[7] * u[1] + m[8] * u[2] + m[9]
    IN  <<x \div w, y \div w>>

\* A color.Color handed to SetColorMask: nil, an RGBA value, or a colour of
\* another type, known by the 16-bit channels its RGBA() method returns.
NilColor == [kind |-> "nil"]

ColorRGBA(c) == [kind |-> "RGBA", rgba |-> c]

Color16(r, g, b, a) == [kind |-> "color16", ch |-> <<r, g, b, a>>]

\* color.White of the standard library.
StdWhite == Color16(65535, 65535, 65535, 65535)

MaskColors == {NilColor, ColorRGBA(Half), StdWhite}

\* ToRGBA: an RGBA is returned as it is, any other colour has each 16-bit
\* channel divided by 0xffff.
ToRGBA(c) ==
    IF c.kind = "RGBA" THEN c.rgba
    ELSE [i \in 1..4 |-> (c.ch[i] * Unit) \div 65535]

\* One element of a TrianglesData.
Vertex(p, c, t) == [Position |-> p, Color |-> c, Picture |-> t]

\* The element SetLen appends when it grows a TrianglesData.
ZeroVertex == Vertex(<<0, 0>>, White, <<0, 0>>)

\* The white triangle at (0,0), (1,0), (0,1).
Triangle ==
    << Vertex(<<0, 0>>, White, <<0, 0>>),
       Vertex(<<1, 0>>, White, <<1, 0>>),
       Vertex(<<0, 1>>, White, <<0, 1>>) >>

\* What the caller writes into its own buffer afterwards.
Painted == Vertex(<<1, 1>>, Tint, <<1, 1>>)

\* Pictures are handles; pictures 1 and 2 are two resources of equal content.
Pictures == {1, 2}

PicBounds(p) == <<0, 0, 1, 1>>

\* The Batches of the program: X is 1, Y is 2.
AllBatches == {1, 2}

Slots == 1..MaxProxies

\* Backing arrays: one per container, one for the caller's buffer, two per
\* geometry proxy, and two in flight while a proxy is resized or copied.
ArrIds == 1..(Cardinality(AllBatches) + 1 + 2 * MaxProxies + 2)

VARIABLES
    heap,    \* backing array -> its elements; <<>> when not allocated
    batch,   \* batch -> [cont: [Triangles, Picture, dirty], mat, col]
    bts,     \* slot -> a batchTriangles [tri, tmp, dst], or NoProxy
    bps,     \* the batchPictures made so far, each [pic, dst]
    src,     \* the caller's own TrianglesData
    calls,   \* the calls the caller has yet to make
    last,    \* history: the last call [op, arg, ok]; ok is FALSE when it panicked
    merged,  \* history: batch -> for each element of its container the proxy
             \*   element it was merged from, with the matrix and mask of then
    cleared, \* history: batch -> the elements Clear has removed from it
    sliceOf  \* history: slot -> [of, i, j] while it holds bts[of].Slice(i, j)
             \*   and neither has been resized; of = 0 otherwise

\* Package pixelgl's call queue (thread.go).
VARIABLES
    callQueue, \* the closures in the channel, oldest first, each [id, kind, c]
    main,      \* where the main thread is: "off" before Run, "select", "call"
               \*   (about to run f), "send" (the closure sends), "returned"
    cur,       \* the closure the loop has received, or NoCall
    done,      \* Run's done channel is closed
    gor,       \* goroutine -> [pc, kind, id, want, ret]; goroutine 1 runs run
    ran,       \* history: the functions run so far, in order, each [id, val]
    subm       \* the calls the goroutines have yet to make

batvars == <<heap, batch, bts, bps, src, calls, last, merged, cleared, sliceOf>>

thr == <<callQueue, main, cur, done, gor, ran, subm>>

vars == <<heap, batch, bts, bps, src, calls, last, merged, cleared, sliceOf,
          callQueue, main, cur, done, gor, ran, subm>>

hist == <<merged, cleared, sliceOf>>

\* ---------------------------------------------------------- TrianglesData
\* A slice header; arr = 0 is a slice without a backing array.
NilSlice == [arr |-> 0, off |-> 0, len |-> 0]

Cap(h, s) == IF s.arr = 0 THEN 0 ELSE Len(h[s.arr]) - s.off

\* The elements a slice shows.
View(h, s) == [i \in 1..s.len |-> h[s.arr][s.off + i]]

\* A header of capacity 0 holds on to nothing.
Norm(h, s) == IF Cap(h, s) = 0 THEN NilSlice ELSE s

\* copy(dst, vs): the elements of slice s overwritten by vs, in place.
Store(h, s, vs) ==
    IF s.len = 0 THEN h
    ELSE [h EXCEPT ![s.arr] =
            [k \in 1..Len(@) |->
                IF k > s.off /\ k <= s.off + s.len THEN vs[k - s.off] ELSE @[k]]]

\* The lowest backing array no header in `used` refers to.
Fresh(used) == CHOOSE a \in ArrIds \ used : \A b \in ArrIds \ used : a <= b

Zeros(n) == [i \in 1..n |-> ZeroVertex]

\* (*TrianglesData).SetLen: cut the header, or append zero elements, in place
\* while the capacity lasts and into a new backing array otherwise.
SetLen(h, used, s, n) ==
    IF n <= s.len THEN [heap |-> h, s |-> [s EXCEPT !.len = n], used |-> used]
    ELSE IF n <= Cap(h, s)
    THEN LET grown == [s EXCEPT !.len = n]
         IN  [heap |-> Store(h, grown, View(h, s) \o Zeros(n - s.len)),
              s |-> grown, used |-> used]
    ELSE LET a == Fresh(used)
         IN  [heap |-> [h EXCEPT ![a] = View(h, s) \o Zeros(n - s.len)],
              s |-> [arr |-> a, off |-> 0, len |-> n],
              used |-> used \cup {a}]

\* (*TrianglesData).Slice: s[i:j], which Go allows up to the capacity.
SliceOk(h, s, i, j) == 0 <= i /\ i <= j /\ j <= Cap(h, s)

Slice(h, s, i, j) == Norm(h, [arr |-> s.arr, off |-> s.off + i, len |-> j - i])

\* (*TrianglesData).Update: panics unless the lengths agree, else copies.
UpdateOk(s, t) == s.len = t.len

Update(h, s, t) == Store(h, s, View(h, t))

\* (*TrianglesData).Copy: a new TrianglesData of the same length, updated.
Copy(h, used, s) ==
    LET r == SetLen(h, used, NilSlice, s.len)
    IN  [heap |-> Update(r.heap, r.s, s), s |-> r.s, used |-> r.used]

\* MakeTrianglesData(len)
MakeTrianglesData(h, used, n) == SetLen(h, used, NilSlice, n)

\* ------------------------------------------------------------------ Batch
NoProxy == [dst |-> 0]

\* The backing arrays some header refers to.
Refs(bat, ts, s) ==
    ({bat[b].cont.Triangles.arr : b \in DOMAIN bat}
        \cup {ts[p].tri.arr : p \in {q \in Slots : ts[q].dst # 0}}
        \cup {ts[p].tmp.arr : p \in {q \in Slots : ts[q].dst # 0}}
        \cup {s.arr}) \ {0}

\* Backing arrays no header refers to any more are given back.
Collect(h, refs) == [a \in ArrIds |-> IF a \in refs THEN h[a] ELSE <<>>]

\* (*Drawer).Dirty
DrawerDirty(d) == [d EXCEPT !.dirty = TRUE]

\* (*Drawer).Draw: the target takes the geometry over, which acknowledges it.
DrawerDraw(d) == [d EXCEPT !.dirty = FALSE]

\* (*Batch).SetMatrix
SetMatrix(b, m) == [b EXCEPT !.mat = m]

\* A SetColorMask that returns early on nil and keeps the mask it had.
SetColorMask_NilKept(b, c) ==
    IF c.kind = "nil" THEN b
    ELSE [b EXCEPT !.col = ToRGBA(c)]

\* (*Batch).SetColorMask
SetColorMask(b, c) ==
    IF c.kind = "nil" THEN [b EXCEPT !.col = White]
    ELSE [b EXCEPT !.col = ToRGBA(c)]

\* NewBatch
NewBatch(container, pic) ==
    LET b == [cont |-> [Triangles |-> container, Picture |-> pic, dirty |-> FALSE],
              mat |-> <<0, 0, 0, 0, 0, 0, 0, 0, 0>>,
              col |-> <<0, 0, 0, 0>>]
    IN  SetColorMask(SetMatrix(b, IM), ColorRGBA(White))

\* A Clear that marks the container dirty and leaves its length.
Clear_NoSetLen(h, b) ==
    [heap |-> h, batch |-> [b EXCEPT !.cont = DrawerDirty(@)]]

\* (*Batch).Clear
Clear(h, b) ==
    LET r == SetLen(h, {}, b.cont.Triangles, 0)
    IN  [heap |-> r.heap,
         batch |-> [b EXCEPT !.cont = DrawerDirty([@ EXCEPT !.Triangles = r.s])]]

\* A MakeTriangles that keeps the caller's Triangles instead of a copy.
MakeTriangles_NoCopy(h, used, t, dst) ==
    LET m == MakeTrianglesData(h, used, t.len)
    IN  [heap |-> m.heap, bt |-> [tri |-> t, tmp |-> m.s, dst |-> dst]]

\* (*Batch).MakeTriangles
MakeTriangles(h, used, t, dst) ==
    LET c == Copy(h, used, t)
        m == MakeTrianglesData(c.heap, c.used, t.len)
    IN  [heap |-> m.heap, bt |-> [tri |-> c.s, tmp |-> m.s, dst |-> dst]]

\* A MakePicture that compares the pictures' content.
MakePictureOk_ByContent(b, p) == PicBounds(p) = PicBounds(b.cont.Picture)

\* (*Batch).MakePicture panics unless p is the Batch's own Picture.
MakePictureOk(b, p) == p = b.cont.Picture

MakePicture(p, dst) == [pic |-> p, dst |-> dst]

\* --------------------------------------------------------- batchTriangles
\* (*batchTriangles).Len
BatchTrianglesLen(bt) == bt.tri.len

\* A SetLen that resizes tri and leaves tmp.
BatchTrianglesSetLen_TriOnly(h, used, bt, n) ==
    LET r1 == SetLen(h, used, bt.tri, n)
    IN  [heap |-> r1.heap, bt |-> [bt EXCEPT !.tri = r1.s]]

\* (*batchTriangles).SetLen
BatchTrianglesSetLen(h, used, bt, n) ==
    LET r1 == SetLen(h, used, bt.tri, n)
        r2 == SetLen(r1.heap, r1.used, bt.tmp, n)
    IN  [heap |-> r2.heap, bt |-> [bt EXCEPT !.tri = r1.s, !.tmp = r2.s]]

\* A Slice that takes the first j - i elements.
BatchTrianglesSlice_FromStart(h, bt, i, j) ==
    [tri |-> Slice(h, bt.tri, 0, j - i), tmp |-> Slice(h, bt.tmp, 0, j - i),
     dst |-> bt.dst]

\* (*batchTriangles).Slice panics when either slice expression does.
BatchTrianglesSliceOk(h, bt, i, j) ==
    SliceOk(h, bt.tri, i, j) /\ SliceOk(h, bt.tmp, i, j)

BatchTrianglesSlice(h, bt, i, j) ==
    [tri |-> Slice(h, bt.tri, i, j), tmp |-> Slice(h, bt.tmp, i, j), dst |-> bt.dst]

\* (*batchTriangles).Update
BatchTrianglesUpdateOk(bt, t) == UpdateOk(bt.tri, t)

BatchTrianglesUpdate(h, bt, t) == Update(h, bt.tri, t)

\* (*batchTriangles).Copy
BatchTrianglesCopy(h, used, bt) ==
    LET c1 == Copy(h, used, bt.tri)
        c2 == Copy(c1.heap, c1.used, bt.tmp)
    IN  [heap |-> c2.heap, bt |-> [tri |-> c1.s, tmp |-> c2.s, dst |-> bt.dst]]

\* A loop that projects and leaves the colour.
Bake_NoMask(b, v) == [v EXCEPT !.Position = Project(b.mat, @)]

\* draw, the loop: one element of tmp projected and masked.
Bake(b, v) == [v EXCEPT !.Position = Project(b.mat, @), !.Color = Mul(b.col, @)]

\* A loop that runs over tri, before tmp takes tri's elements.
Scratch_InPlace(h, bt, b) ==
    LET h1 == Store(h, bt.tri, [i \in 1..bt.tri.len |-> Bake(b, View(h, bt.tri)[i])])
    IN  Update(h1, bt.tmp, bt.tri)

\* draw up to the loop's end: tmp takes tri's elements, then each is baked.
Scratch(h, bt, b) ==
    LET h1 == Update(h, bt.tmp, bt.tri)
    IN  Store(h1, bt.tmp, [i \in 1..bt.tmp.len |-> Bake(b, View(h1, bt.tmp)[i])])

\* draw panics when tmp.Update does.
drawOk(bt) == UpdateOk(bt.tmp, bt.tri)

\* A draw that sets the container's length to the proxy's.
draw_SetLenToLen(h, used, bt, b) ==
    LET h2 == Scratch(h, bt, b)
        cont == b.cont.Triangles
        r == SetLen(h2, used, cont, BatchTrianglesLen(bt))
        added == Slice(r.heap, r.s, r.s.len - BatchTrianglesLen(bt), r.s.len)
        h3 == Update(r.heap, added, bt.tri)
        h4 == Update(h3, added, bt.tmp)
    IN  [heap |-> h4,
         batch |-> [b EXCEPT !.cont = DrawerDirty([@ EXCEPT !.Triangles = r.s])]]

\* A draw that writes the merged elements at the container's head.
draw_AtHead(h, used, bt, b) ==
    LET h2 == Scratch(h, bt, b)
        cont == b.cont.Triangles
        r == SetLen(h2, used, cont, cont.len + BatchTrianglesLen(bt))
        added == Slice(r.heap, r.s, 0, BatchTrianglesLen(bt))
        h3 == Update(r.heap, added, bt.tri)
        h4 == Update(h3, added, bt.tmp)
    IN  [heap |-> h4,
         batch |-> [b EXCEPT !.cont = DrawerDirty([@ EXCEPT !.Triangles = r.s])]]

\* (*batchTriangles).draw
draw(h, used, bt, b) ==
    LET h2 == Scratch(h, bt, b)
        cont == b.cont.Triangles
        r == SetLen(h2, used, cont, cont.len + BatchTrianglesLen(bt))
        added == Slice(r.heap, r.s, r.s.len - BatchTrianglesLen(bt), r.s.len)
        h3 == Update(r.heap, added, bt.tri)
        h4 == Update(h3, added, bt.tmp)
    IN  [heap |-> h4,
         batch |-> [b EXCEPT !.cont = DrawerDirty([@ EXCEPT !.Triangles = r.s])]]

\* A Draw that accepts the triangles of any Batch of the same picture.
BatchPictureDrawOk_ByPicture(bp, bt) == bp.pic = batch[bt.dst].cont.Picture

\* (*batchPicture).Draw panics when the triangles are another Batch's.
BatchPictureDrawOk(bp, bt) == bp.dst = bt.dst

\* ------------------------------------------------------------- operations
\* The call of op has ended, by returning (ok) or by a panic the caller
\* recovered from; arg is the mask of a SetColorMask, the picture of a
\* MakePicture, the slot of a Draw.
Ended(op, arg, ok) ==
    /\ last' = [op |-> op, arg |-> arg, ok |-> ok]
    /\ calls' = calls - 1
    /\ UNCHANGED thr

NoSlice == [of |-> 0, i |-> 0, j |-> 0]

\* The slot a new proxy is kept in: the first one not taken.
Free(q) == bts[q].dst = 0 /\ \A r \in 1..(q - 1) : bts[r].dst # 0

\* The caller holds the triangle and has constructed the Batches of bs, each
\* over an empty TrianglesData of its own and all with picture 1.
Constructed(bs, n) ==
    /\ heap = [a \in ArrIds |-> IF a = 1 THEN Triangle ELSE <<>>]
    /\ src = [arr |-> 1, off |-> 0, len |-> Len(Triangle)]
    /\ batch = [b \in bs |-> NewBatch(NilSlice, 1)]
    /\ bts = [p \in Slots |-> NoProxy]
    /\ bps = {}
    /\ calls = n
    /\ last = [op |-> "NewBatch", arg |-> 0, ok |-> TRUE]
    /\ merged = [b \in bs |-> <<>>]
    /\ cleared = [b \in bs |-> 0]
    /\ sliceOf = [p \in Slots |-> NoSlice]

\* --------------------------------------------------------------- callQueue
Goroutines == 1..MaxGoroutines

\* What f returns, where it returns an error or a value.
Vals == {0, 1}

Kinds == {"DoNoBlock", "Do", "DoErr", "DoVal", "DoGLErr", "DoErrGLErr", "DoValGLErr"}

\* Whether the f of a call of this kind returns an error or a value.
Returns(kind) == kind \in {"DoErr", "DoVal", "DoErrGLErr", "DoValGLErr"}

\* Closures of DoErrGLErr and DoValGLErr that send the GL error first.
Sends_GLErrFirst(kind) ==
    CASE kind = "Do" -> <<"done">>
      [] kind = "DoErr" -> <<"err">>
      [] kind = "DoVal" -> <<"val">>
      [] kind = "DoGLErr" -> <<"glerr">>
      [] kind = "DoErrGLErr" -> <<"glerr", "err">>
      [] kind = "DoValGLErr" -> <<"glerr", "val">>
      [] OTHER -> <<>>

\* The channels the closure of a call sends on after f, in order.
Sends(kind) ==
    CASE kind = "Do" -> <<"done">>
      [] kind = "DoErr" -> <<"err">>
      [] kind = "DoVal" -> <<"val">>
      [] kind = "DoGLErr" -> <<"glerr">>
      [] kind = "DoErrGLErr" -> <<"err", "glerr">>
      [] kind = "DoValGLErr" -> <<"val", "glerr">>
      [] OTHER -> <<>>

\* Calls that return after their send to callQueue, as DoNoBlock does.
Recvs_None(kind) == <<>>

\* The channels a call receives from after its send to callQueue, in order.
Recvs(kind) ==
    CASE kind = "Do" -> <<"done">>
      [] kind = "DoErr" -> <<"err">>
      [] kind = "DoVal" -> <<"val">>
      [] kind = "DoGLErr" -> <<"glerr">>
      [] kind = "DoErrGLErr" -> <<"err", "glerr">>
      [] kind = "DoValGLErr" -> <<"val", "glerr">>
      [] OTHER -> <<>>

NoCall == [id |-> 0, kind |-> "none", c |-> 0, val |-> 0, todo |-> <<>>]

\* A goroutine that has made no call; the one that runs run starts with Run.
NoGoroutine(c) ==
    [pc |-> IF c = 1 THEN "unborn" ELSE "idle", kind |-> "none", id |-> 0,
     want |-> <<>>, ret |-> 0]

\* The package as its var declaration leaves it, Run not yet called.
Loaded(n) ==
    /\ callQueue = <<>>
    /\ main = "off"
    /\ cur = NoCall
    /\ done = FALSE
    /\ gor = [c \in Goroutines |-> NoGoroutine(c)]
    /\ ran = <<>>
    /\ subm = n

Init == Constructed({1}, MaxCalls) /\ Loaded(0)

InitXY == Constructed(AllBatches, MaxCallsXY) /\ Loaded(0)

InitThread == Constructed({1}, 0) /\ Loaded(MaxSubmits)

Batches == DOMAIN batch

\* The caller overwrites element i of its own buffer.
CallerWrite(i) ==
    /\ calls > 0
    /\ heap' = Store(heap, Slice(heap, src, i - 1, i), <<Painted>>)
    /\ Ended("CallerWrite", 0, TRUE)
    /\ UNCHANGED <<batch, bts, bps, src, hist>>

\* A Dirty that empties the container as Clear does.
BatchDirty_Clears(b) ==
    /\ calls > 0
    /\ LET r == Clear(heap, batch[b])
       IN  /\ heap' = r.heap
           /\ batch' = [batch EXCEPT ![b] = r.batch]
    /\ Ended("Dirty", 0, TRUE)
    /\ merged' = [merged EXCEPT ![b] = <<>>]
    /\ UNCHANGED <<bts, bps, src, cleared, sliceOf>>

BatchDirty(b) ==
    /\ calls > 0
    /\ batch' = [batch EXCEPT ![b].cont = DrawerDirty(@)]
    /\ Ended("Dirty", 0, TRUE)
    /\ UNCHANGED <<heap, bts, bps, src, hist>>

BatchClear(b) ==
    /\ calls > 0
    /\ LET r == Clear(heap, batch[b])
       IN  /\ batch' = [batch EXCEPT ![b] = r.batch]
           /\ heap' = Collect(r.heap, Refs(batch', bts, src))
    /\ Ended("Clear", 0, TRUE)
    /\ merged' = [merged EXCEPT ![b] = <<>>]
    /\ cleared' = [cleared EXCEPT ![b] = @ + batch[b].cont.Triangles.len]
    /\ UNCHANGED <<bts, bps, src, sliceOf>>

BatchDraw(b) ==
    /\ calls > 0
    /\ batch' = [batch EXCEPT ![b].cont = DrawerDraw(@)]
    /\ Ended("BatchDraw", 0, TRUE)
    /\ UNCHANGED <<heap, bts, bps, src, hist>>

\* A SetMatrix that also projects what the container holds.
BatchSetMatrix_Retroactive(b, m) ==
    /\ calls > 0
    /\ batch' = [batch EXCEPT ![b] = SetMatrix(@, m)]
    /\ heap' = Store(heap, batch[b].cont.Triangles,
                     [i \in 1..batch[b].cont.Triangles.len |->
                         [View(heap, batch[b].cont.Triangles)[i]
                             EXCEPT !.Position = Project(m, @)]])
    /\ Ended("SetMatrix", 0, TRUE)
    /\ UNCHANGED <<bts, bps, src, hist>>

BatchSetMatrix(b, m) ==
    /\ calls > 0
    /\ batch' = [batch EXCEPT ![b] = SetMatrix(@, m)]
    /\ Ended("SetMatrix", 0, TRUE)
    /\ UNCHANGED <<heap, bts, bps, src, hist>>

BatchSetColorMask(b, c) ==
    /\ calls > 0
    /\ batch' = [batch EXCEPT ![b] = SetColorMask(@, c)]
    /\ Ended("SetColorMask", c, TRUE)
    /\ UNCHANGED <<heap, bts, bps, src, hist>>

\* b.MakeTriangles(src[:j]), the result kept in slot q.
BatchMakeTriangles(b, j, q) ==
    /\ calls > 0
    /\ Free(q)
    /\ SliceOk(heap, src, 0, j)
    /\ LET r == MakeTriangles(heap, Refs(batch, bts, src),
                              Slice(heap, src, 0, j), b)
       IN  /\ bts' = [bts EXCEPT ![q] = r.bt]
           /\ heap' = Collect(r.heap, Refs(batch, bts', src))
    /\ Ended("MakeTriangles", 0, TRUE)
    /\ UNCHANGED <<batch, bps, src, hist>>

BatchMakePicture(b, pic) ==
    /\ calls > 0
    /\ bps' = IF MakePictureOk(batch[b], pic)
              THEN bps \cup {MakePicture(pic, b)} ELSE bps
    /\ Ended("MakePicture", pic, MakePictureOk(batch[b], pic))
    /\ UNCHANGED <<heap, batch, bts, src, hist>>

BtSetLen(p, n) ==
    /\ calls > 0
    /\ bts[p].dst # 0
    /\ LET r == BatchTrianglesSetLen(heap, Refs(batch, bts, src), bts[p], n)
       IN  /\ bts' = [bts EXCEPT ![p] = r.bt]
           /\ heap' = Collect(r.heap, Refs(batch, bts', src))
    /\ Ended("SetLen", 0, TRUE)
    /\ sliceOf' = [q \in Slots |-> IF q = p \/ sliceOf[q].of = p
                                    THEN NoSlice ELSE sliceOf[q]]
    /\ UNCHANGED <<batch, bps, src, merged, cleared>>

\* bts[p].Slice(i, j), the result kept in slot q.
BtSlice(p, i, j, q) ==
    /\ calls > 0
    /\ bts[p].dst # 0
    /\ Free(q)
    /\ IF BatchTrianglesSliceOk(heap, bts[p], i, j)
       THEN /\ bts' = [bts EXCEPT ![q] = BatchTrianglesSlice(heap, bts[p], i, j)]
            /\ heap' = Collect(heap, Refs(batch, bts', src))
       ELSE UNCHANGED <<heap, bts>>
    /\ Ended("Slice", 0, BatchTrianglesSliceOk(heap, bts[p], i, j))
    /\ sliceOf' = IF i <= j /\ j <= BatchTrianglesLen(bts[p])
                  THEN [sliceOf EXCEPT ![q] = [of |-> p, i |-> i, j |-> j]]
                  ELSE sliceOf
    /\ UNCHANGED <<batch, bps, src, merged, cleared>>

\* bts[p].Update(src[:j])
BtUpdate(p, j) ==
    /\ calls > 0
    /\ bts[p].dst # 0
    /\ SliceOk(heap, src, 0, j)
    /\ LET t == Slice(heap, src, 0, j)
       IN  /\ heap' = IF BatchTrianglesUpdateOk(bts[p], t)
                      THEN BatchTrianglesUpdate(heap, bts[p], t) ELSE heap
           /\ Ended("Update", 0, BatchTrianglesUpdateOk(bts[p], t))
    /\ UNCHANGED <<batch, bts, bps, src, hist>>

\* bts[p].Copy(), the result kept in slot q.
BtCopy(p, q) ==
    /\ calls > 0
    /\ bts[p].dst # 0
    /\ Free(q)
    /\ LET r == BatchTrianglesCopy(heap, Refs(batch, bts, src), bts[p])
       IN  /\ bts' = [bts EXCEPT ![q] = r.bt]
           /\ heap' = Collect(r.heap, Refs(batch, bts', src))
    /\ Ended("Copy", 0, TRUE)
    /\ UNCHANGED <<batch, bps, src, hist>>

\* The merge of bts[p] into its Batch, as draw does it.
Merge(p) ==
    LET b == bts[p].dst
    IN  /\ batch[b].cont.Triangles.len + BatchTrianglesLen(bts[p]) <= MaxCont
        /\ LET r == draw(heap, Refs(batch, bts, src), bts[p], batch[b])
           IN  /\ batch' = [batch EXCEPT ![b] = r.batch]
               /\ heap' = Collect(r.heap, Refs(batch', bts, src))
        /\ merged' = [merged EXCEPT ![b] = @ \o
              [k \in 1..bts[p].tri.len |->
                  [v |-> View(heap, bts[p].tri)[k],
                   mat |-> batch[b].mat, col |-> batch[b].col]]]

NoMerge == UNCHANGED <<heap, batch, merged>>

\* (*batchTriangles).Draw
BtDraw(p) ==
    /\ calls > 0
    /\ bts[p].dst # 0
    /\ IF drawOk(bts[p]) THEN Merge(p) ELSE NoMerge
    /\ Ended("Draw", p, drawOk(bts[p]))
    /\ UNCHANGED <<bts, bps, src, cleared, sliceOf>>

\* (*batchPicture).Draw
BpDraw(bp, p) ==
    /\ calls > 0
    /\ bts[p].dst # 0
    /\ IF BatchPictureDrawOk(bp, bts[p]) /\ drawOk(bts[p])
       THEN Merge(p) ELSE NoMerge
    /\ Ended("PictureDraw", p, BatchPictureDrawOk(bp, bts[p]) /\ drawOk(bts[p]))
    /\ UNCHANGED <<bts, bps, src, cleared, sliceOf>>

\* One call of the caller, while it has calls to make.
Next ==
    \/ \E i \in 1..src.len : CallerWrite(i)
    \/ \E b \in Batches : BatchDirty(b)
    \/ \E b \in Batches : BatchClear(b)
    \/ \E b \in Batches : BatchDraw(b)
    \/ \E b \in Batches, m \in Matrices : BatchSetMatrix(b, m)
    \/ \E b \in Batches, c \in MaskColors : BatchSetColorMask(b, c)
    \/ \E b \in Batches, j \in 0..MaxLen, q \in Slots : BatchMakeTriangles(b, j, q)
    \/ \E b \in Batches, pic \in Pictures : BatchMakePicture(b, pic)
    \/ \E p \in Slots, n \in 0..MaxLen : BtSetLen(p, n)
    \/ \E p, q \in Slots, i, j \in 0..MaxLen : BtSlice(p, i, j, q)
    \/ \E p \in Slots, j \in 0..MaxLen : BtUpdate(p, j)
    \/ \E p, q \in Slots : BtCopy(p, q)
    \/ \E p \in Slots : BtDraw(p)
    \/ \E bp \in bps, p \in Slots : BpDraw(bp, p)

Spec == Init /\ [][Next]_vars

SpecXY == InitXY /\ [][Next]_vars

\* ------------------------------------------------------ callQueue, the calls
\* The closures sent to callQueue so far.
Sent == Len(ran) + Len(callQueue) + (IF main \in {"call"} THEN 1 ELSE 0)

\* A goroutine enters a call of this kind: it is about to send its closure.
Begin(c, kind) ==
    /\ subm > 0
    /\ gor[c].pc = "idle"
    /\ gor' = [gor EXCEPT ![c] = [pc |-> "send", kind |-> kind, id |-> 0,
                                  want |-> <<>>, ret |-> 0]]
    /\ subm' = subm - 1
    /\ UNCHANGED <<callQueue, main, cur, done, ran>>
    /\ UNCHANGED batvars

DoNoBlock(c) == Begin(c, "DoNoBlock")

Do(c) == Begin(c, "Do")

DoErr(c) == Begin(c, "DoErr")

DoVal(c) == Begin(c, "DoVal")

DoGLErr(c) == Begin(c, "DoGLErr")

DoErrGLErr(c) == Begin(c, "DoErrGLErr")

DoValGLErr(c) == Begin(c, "DoValGLErr")

\* callQueue <- func() {...}: blocks while the channel is full.  DoNoBlock
\* returns after it, the others go on to receive.
Send(c) ==
    /\ gor[c].pc = "send"
    /\ Len(callQueue) < QueueCap
    /\ callQueue' = Append(callQueue, [id |-> Sent + 1, kind |-> gor[c].kind, c |-> c])
    /\ gor' = [gor EXCEPT ![c].id = Sent + 1,
                          ![c].want = Recvs(gor[c].kind),
                          ![c].pc = IF Recvs(gor[c].kind) = <<>> THEN "idle" ELSE "recv"]
    /\ UNCHANGED <<main, cur, done, ran, subm>>
    /\ UNCHANGED batvars

\* Run: makes done, starts the goroutine of run and enters the loop.
Run ==
    /\ main = "off"
    /\ main' = "select"
    /\ gor' = [gor EXCEPT ![1].pc = "idle"]
    /\ UNCHANGED <<callQueue, cur, done, ran, subm>>
    /\ UNCHANGED batvars

\* run returns, which it does outside a call only, and done is closed.
RunFinish ==
    /\ gor[1].pc = "idle"
    /\ gor' = [gor EXCEPT ![1].pc = "gone"]
    /\ done' = TRUE
    /\ UNCHANGED <<callQueue, main, cur, ran, subm>>
    /\ UNCHANGED batvars

\* A receive that takes the closure sent last.
Dequeue_Last(q) == [f |-> q[Len(q)], rest |-> SubSeq(q, 1, Len(q) - 1)]

\* What a receive from callQueue takes and leaves.
Dequeue(q) == [f |-> Head(q), rest |-> Tail(q)]

\* select, case f := <-callQueue
Receive ==
    /\ main = "select"
    /\ callQueue # <<>>
    /\ cur' = [id |-> Dequeue(callQueue).f.id, kind |-> Dequeue(callQueue).f.kind,
               c |-> Dequeue(callQueue).f.c, val |-> 0, todo |-> <<>>]
    /\ callQueue' = Dequeue(callQueue).rest
    /\ main' = "call"
    /\ UNCHANGED <<done, gor, ran, subm>>
    /\ UNCHANGED batvars

\* The closure runs f, which returns v, and is left with its sends.
Call(v) ==
    /\ main = "call"
    /\ Returns(cur.kind) \/ v = 0
    /\ ran' = Append(ran, [id |-> cur.id, val |-> v])
    /\ IF Sends(cur.kind) = <<>>
       THEN cur' = NoCall /\ main' = "select"
       ELSE cur' = [cur EXCEPT !.val = v, !.todo = Sends(cur.kind)] /\ main' = "send"
    /\ UNCHANGED <<callQueue, done, gor, subm>>
    /\ UNCHANGED batvars

\* The closure's send on an unbuffered channel meets the receive of the
\* goroutine that made the call; err and val carry what f returned.
Reply(c) ==
    /\ main = "send"
    /\ cur.c = c
    /\ gor[c].pc = "recv"
    /\ Head(cur.todo) = Head(gor[c].want)
    /\ gor' = [gor EXCEPT ![c].want = Tail(@),
                          ![c].ret = IF Head(cur.todo) \in {"err", "val"}
                                     THEN cur.val ELSE @,
                          ![c].pc = IF Tail(gor[c].want) = <<>> THEN "idle" ELSE "recv"]
    /\ IF Tail(cur.todo) = <<>>
       THEN cur' = NoCall /\ main' = "select"
       ELSE cur' = [cur EXCEPT !.todo = Tail(@)] /\ main' = "send"
    /\ UNCHANGED <<callQueue, done, ran, subm>>
    /\ UNCHANGED batvars

\* A loop that breaks whether done is closed or not.
Exit_Early ==
    /\ main = "select"
    /\ main' = "returned"
    /\ UNCHANGED <<callQueue, cur, done, gor, ran, subm>>
    /\ UNCHANGED batvars

\* select, case <-done: break loop, and Run returns.
Exit ==
    /\ main = "select"
    /\ done
    /\ main' = "returned"
    /\ UNCHANGED <<callQueue, cur, done, gor, ran, subm>>
    /\ UNCHANGED batvars

NextThread ==
    \/ Run
    \/ RunFinish
    \/ \E c \in Goroutines : DoNoBlock(c)
    \/ \E c \in Goroutines : Do(c)
    \/ \E c \in Goroutines : DoErr(c)
    \/ \E c \in Goroutines : DoVal(c)
    \/ \E c \in Goroutines : DoGLErr(c)
    \/ \E c \in Goroutines : DoErrGLErr(c)
    \/ \E c \in Goroutines : DoValGLErr(c)
    \/ \E c \in Goroutines : Send(c)
    \/ Receive
    \/ \E v \in Vals : Call(v)
    \/ \E c \in Goroutines : Reply(c)
    \/ Exit

\* The loop goes on while it can, a goroutine blocked in a send or a
\* receive goes on when it can: blocked senders are served in turn, and
\* select takes a case that stays ready or is ready again and again.
Fairness ==
    /\ WF_vars(Receive)
    /\ WF_vars(\E v \in Vals : Call(v))
    /\ SF_vars(Exit)
    /\ \A c \in Goroutines : WF_vars(Reply(c)) /\ SF_vars(Send(c))

SpecThread == InitThread /\ [][NextThread]_vars /\ Fairness

\* ----------------------------------------------------------------- claims
\* The elements of a Batch's container, of a proxy, of the caller's buffer.
ContView(b) == View(heap, batch[b].cont.Triangles)

TriView(p) == View(heap, bts[p].tri)

SrcView == View(heap, src)

Made == {p \in Slots : bts[p].dst # 0}

\* What the claims expect of element v merged under matrix m and mask c.
Expected(m, c, v) ==
    [Position |-> Project(m, v.Position), Color |-> Mul(c, v.Color),
     Picture |-> v.Picture]

\* This step is a merge of proxy p: its own Draw, or the Draw of an image
\* proxy of the same Batch.
IsMerge(p) ==
    \/ BtDraw(p)
    \/ \E bp \in bps : bp.dst = bts[p].dst /\ BpDraw(bp, p)

Merged == last.op \in {"Draw", "PictureDraw"} /\ last.ok

\* C1: a merge of a proxy of length k, by either Draw, goes through, makes the
\* container of the proxy's Batch exactly k longer and leaves it dirty.
C1_MergeGrowsContainerByLen ==
    [][\A p \in Made : IsMerge(p) =>
          /\ last'.ok
          /\ Len(ContView(bts[p].dst)') = Len(ContView(bts[p].dst)) + Len(TriView(p))
          /\ batch'[bts[p].dst].cont.dirty]_vars

\* An empty proxy was merged into a container that holds elements, and a
\* proxy of three elements into a clean Batch.
C1_Witness ==
    /\ Merged
    /\ Len(TriView(last.arg)) = 0
    /\ Len(ContView(bts[last.arg].dst)) = Len(Triangle)
    /\ batch[bts[last.arg].dst].cont.dirty

\* C2: after a merge of a proxy of length k the last k elements of the
\* container are the proxy's elements with the position projected by the
\* Batch's matrix, the colour multiplied by its mask, the rest as it was.
C2_MergedTailIsBaked ==
    [][\A p \in Made : IsMerge(p) =>
          LET b == bts[p].dst
              n == Len(ContView(b))
              k == Len(TriView(p))
          IN  /\ Len(ContView(b)') = n + k
              /\ \A i \in 1..k :
                    ContView(b)'[n + i] =
                        Expected(batch[b].mat, batch[b].col, TriView(p)[i])]_vars

\* The white triangle merged into an empty container under the identity and
\* the mask (0.5, 0.5, 0.5, 1).
C2_Witness ==
    /\ Merged
    /\ batch[1].mat = IM /\ batch[1].col = Half
    /\ batch[1].cont.dirty
    /\ ContView(1) =
         << Vertex(<<0, 0>>, Half, <<0, 0>>),
            Vertex(<<1, 0>>, Half, <<1, 0>>),
            Vertex(<<0, 1>>, Half, <<0, 1>>) >>

\* C3: every element of a container is the proxy element it was merged from
\* under the matrix and the mask that were current when its merge ran,
\* whatever SetMatrix and SetColorMask did afterwards.
C3_NonRetroactive ==
    \A b \in Batches :
        /\ Len(ContView(b)) = Len(merged[b])
        /\ \A i \in 1..Len(merged[b]) :
              ContView(b)[i] =
                  Expected(merged[b][i].mat, merged[b][i].col, merged[b][i].v)

\* The triangle merged under the identity, then again under M2.
C3_Witness ==
    /\ Merged
    /\ batch[1].mat = M2
    /\ ContView(1) =
         [i \in 1..3 |-> Expected(IM, White, Triangle[i])]
             \o [i \in 1..3 |-> Expected(M2, White, Triangle[i])]

\* C4: MakePicture panics exactly when the picture is not the Batch's own, be
\* it of equal content; it then makes no proxy and changes nothing.
C4_MakePictureIdentity ==
    [][\A b \in Batches, pic \in Pictures : BatchMakePicture(b, pic) =>
          IF pic = batch[b].cont.Picture
          THEN last'.ok /\ [pic |-> pic, dst |-> b] \in bps'
          ELSE ~last'.ok /\ UNCHANGED <<heap, batch, bts, bps, src>>]_vars

\* MakePicture panicked on a picture with the bounds of the Batch's own.
C4_Witness ==
    /\ last.op = "MakePicture" /\ ~last.ok
    /\ last.arg # batch[1].cont.Picture
    /\ PicBounds(last.arg) = PicBounds(batch[1].cont.Picture)
    /\ bps = {}

\* C5: the Draw of a Batch's image proxy on another Batch's geometry proxy
\* panics and changes no container, no dirty flag and no buffer.
C5_ForeignTrianglesPanic ==
    [][\A bp \in bps, p \in Made : bp.dst # bts[p].dst /\ BpDraw(bp, p) =>
          ~last'.ok /\ UNCHANGED <<heap, batch, bts, bps, src>>]_vars

\* An image proxy of one of two Batches was asked to draw and panicked.
C5_Witness ==
    /\ last.op = "PictureDraw" /\ ~last.ok
    /\ \E bp \in bps : bp.dst # bts[last.arg].dst

\* C6: Clear leaves the container empty and dirty, and a merge into an empty
\* container, cleared or new, leaves exactly the merged elements in it.
C6_ClearThenMergeAsFresh ==
    [][/\ \A b \in Batches : BatchClear(b) =>
              Len(ContView(b)') = 0 /\ batch'[b].cont.dirty
       /\ \A p \in Made : IsMerge(p) /\ Len(ContView(bts[p].dst)) = 0 =>
              ContView(bts[p].dst)' =
                  [i \in 1..Len(TriView(p)) |->
                      Expected(batch[bts[p].dst].mat, batch[bts[p].dst].col,
                               TriView(p)[i])]]_vars

\* A Batch that held the triangle was cleared, and the merge after the Clear
\* left the proxy's three elements in the container and no others.
C6_Witness ==
    /\ Merged
    /\ cleared[1] = Len(Triangle)
    /\ Len(TriView(last.arg)) = Len(Triangle)
    /\ ContView(1) =
         [i \in 1..3 |-> Expected(batch[1].mat, batch[1].col, TriView(last.arg)[i])]

\* C7: only the caller's own write changes the caller's buffer, and that
\* write changes the elements of no proxy.
C7_PrivateClone ==
    [][/\ SrcView' # SrcView => last'.op = "CallerWrite"
       /\ last'.op = "CallerWrite" => \A p \in Made : TriView(p)' = TriView(p)]_vars

\* The caller painted its buffer after making a proxy of it, and the merge
\* of the proxy put the triangle as it was into the container.
C7_Witness ==
    /\ Merged
    /\ SrcView # Triangle
    /\ TriView(last.arg) = Triangle
    /\ ContView(1) = Triangle

\* C8: a merge keeps every element the container held, at its index.
C8_MergeOnlyAppends ==
    [][\A p \in Made : IsMerge(p) =>
          LET b == bts[p].dst
          IN  /\ Len(ContView(b)') >= Len(ContView(b))
              /\ SubSeq(ContView(b)', 1, Len(ContView(b))) = ContView(b)]_vars

\* The triangle merged twice under the identity and the white mask.
C8_Witness ==
    /\ Merged
    /\ batch[1].mat = IM /\ batch[1].col = White
    /\ SrcView = Triangle
    /\ ContView(1) = Triangle \o Triangle

\* C9: while neither is resized, g.Slice(i, j) with 0 <= i <= j <= g.Len() has
\* length j - i, is bound to g's Batch and shows g's elements i..j-1, whatever
\* is written through either; its merge appends those elements of g.
C9_SliceAliases ==
    \A q \in Slots : sliceOf[q].of # 0 =>
        LET g == sliceOf[q].of
            i == sliceOf[q].i
            j == sliceOf[q].j
            b == bts[q].dst
            n == Len(ContView(b)) - (j - i)
        IN  /\ bts[q].dst = bts[g].dst
            /\ Len(TriView(q)) = j - i
            /\ \A k \in 1..(j - i) : TriView(q)[k] = TriView(g)[i + k]
            /\ Merged /\ last.arg = q =>
                  /\ n >= 0
                  /\ \A k \in 1..(j - i) :
                        ContView(b)[n + k] =
                            Expected(batch[b].mat, batch[b].col, TriView(g)[i + k])

\* Slot 2 holds bts[1].Slice(1, 3); an Update of it showed through bts[1],
\* and its merge put the two elements into the container.
C9_Witness ==
    /\ Merged /\ last.arg = 2
    /\ sliceOf[2] = [of |-> 1, i |-> 1, j |-> 3]
    /\ TriView(1) = <<Triangle[1], Triangle[1], Triangle[2]>>
    /\ ContView(1) = <<Triangle[1], Triangle[2]>>

\* C10: a new Batch has the identity and the white mask; SetColorMask makes
\* the colour it is given the mask, and white of nil; under the white mask a
\* merge keeps each element's colour.
C10_SetColorMask ==
    [][/\ calls = MaxCalls =>
              \A b \in Batches : batch[b].mat = IM /\ batch[b].col = White
       /\ \A b \in Batches, c \in MaskColors : BatchSetColorMask(b, c) =>
              batch'[b].col = IF c.kind = "RGBA" THEN c.rgba ELSE White
       /\ \A p \in Made : IsMerge(p) /\ batch[bts[p].dst].col = White =>
              LET n == Len(ContView(bts[p].dst))
              IN  /\ Len(ContView(bts[p].dst)') = n + Len(TriView(p))
                  /\ \A i \in 1..Len(TriView(p)) :
                        ContView(bts[p].dst)'[n + i].Color = TriView(p)[i].Color]_vars

\* SetColorMask(nil) made the mask white of a Batch that had merged under
\* the mask (0.5, 0.5, 0.5, 1).
C10_Witness ==
    /\ last.op = "SetColorMask" /\ last.arg.kind = "nil"
    /\ batch[1].col = White
    /\ Len(ContView(1)) = Len(Triangle)
    /\ ContView(1)[1].Color = Half

\* C11: the length of every proxy and of the container is a multiple of 3
\* in every state MakeTriangles, SetLen, Slice, Copy, a merge and Clear lead
\* to.
C11_LengthsMultipleOf3 ==
    /\ \A b \in Batches : Len(ContView(b)) % 3 = 0
    /\ \A p \in Made : Len(TriView(p)) % 3 = 0

\* C12: tmp is as long as tri, for every proxy, be it made by MakeTriangles,
\* Slice or Copy, resized, updated or merged.
C12_ScratchLenIsLocalLen ==
    \A p \in Made : bts[p].tmp.len = bts[p].tri.len

\* Slot 2 holds a slice of two elements of the proxy of slot 1, which was
\* resized to one element afterwards.
C12_Witness ==
    /\ last.op = "SetLen"
    /\ Made = {1, 2}
    /\ bts[1].tri.len = 1 /\ bts[1].tmp.len = 1
    /\ bts[2].tri.len = 2 /\ bts[2].tmp.len = 2

\* C17: a merge changes the elements of no proxy, so that a second merge of
\* the same proxy bakes the elements the first one did.
C17_MergeKeepsLocalGeometry ==
    [][\A p \in Made : IsMerge(p) =>
          \A q \in Made : TriView(q)' = TriView(q)]_vars

\* The triangle merged twice under M2: both halves of the container are the
\* triangle projected once, and the proxy still holds the triangle.
C17_Witness ==
    /\ Merged
    /\ batch[1].mat = M2
    /\ TriView(last.arg) = Triangle
    /\ ContView(1) =
         [i \in 1..3 |-> Expected(M2, batch[1].col, Triangle[i])]
             \o [i \in 1..3 |-> Expected(M2, batch[1].col, Triangle[i])]

\* C18: a step that changes the length or an element of a container is a
\* merge or a Clear.
C18_OnlyMergeAndClearChangeContainer ==
    [][\A b \in Batches : ContView(b)' # ContView(b) =>
          last'.op \in {"Draw", "PictureDraw", "Clear"}]_vars

\* The caller painted its buffer and updated a proxy from it after the
\* proxy's merge: the container still holds the triangle as merged.
C18_Witness ==
    /\ last.op = "Update" /\ last.ok
    /\ ContView(1) = Triangle
    /\ \E p \in Made : TriView(p) # Triangle /\ Len(TriView(p)) = Len(Triangle)

\* The loop of Run is running.
Looping == main \in {"select", "call", "send"}

\* The entries of ran for the function with this id.
RanOf(id) == {i \in 1..Len(ran) : ran[i].id = id}

\* C13: when Do, DoErr or DoVal has returned, the loop has run its function
\* exactly once, to the end, and DoErr and DoVal have returned what that run
\* returned.
C13_DoBlocksUntilRun ==
    \A c \in Goroutines :
        gor[c].pc \in {"idle", "gone"} /\ gor[c].kind \in {"Do", "DoErr", "DoVal"} =>
            /\ Cardinality(RanOf(gor[c].id)) = 1
            /\ gor[c].kind \in {"DoErr", "DoVal"} =>
                  \A i \in RanOf(gor[c].id) : gor[c].ret = ran[i].val

\* A DoVal has returned the 1 its function returned, after a Do of another
\* goroutine.
C13_Witness ==
    \E c, d \in Goroutines :
        /\ gor[c].pc = "idle" /\ gor[c].kind = "DoVal" /\ gor[c].ret = 1
        /\ gor[d].pc = "idle" /\ gor[d].kind = "Do"
        /\ \E i \in RanOf(gor[c].id) : ran[i].val = 1

\* C14: Run does not return before run has, and returns once run has,
\* whatever callQueue holds.
C14_RunReturnsWhenRunFinishes ==
    /\ [](main = "returned" => done)
    /\ done ~> (main = "returned")

\* Run has returned and left a closure in callQueue.
C14_Witness ==
    /\ main = "returned"
    /\ done
    /\ callQueue # <<>>

\* C15: a function DoNoBlock has put in callQueue while the loop of Run is
\* running is run by the loop in the end, once.
C15_DoNoBlockIsRun ==
    \A id \in 1..MaxSubmits :
        (Looping /\ \E i \in 1..Len(callQueue) :
                       callQueue[i].id = id /\ callQueue[i].kind = "DoNoBlock")
            ~> (Cardinality(RanOf(id)) = 1)

\* C16: a goroutine in DoNoBlock while the loop of Run is running can send
\* and return at once, whatever callQueue holds.
C16_DoNoBlockNeverWaits ==
    \A c \in Goroutines :
        Looping /\ gor[c].pc = "send" /\ gor[c].kind = "DoNoBlock" =>
            Len(callQueue) < QueueCap

\* C19: the loop runs the functions one at a time, in the order their
\* closures entered callQueue.
C19_RunInQueueOrder ==
    /\ \A i \in 1..Len(ran) : ran[i].id = i
    /\ \A i \in 1..Len(callQueue) :
          callQueue[i].id = Len(ran) + (IF main = "call" THEN 1 ELSE 0) + i
    /\ main \in {"call", "send"} <=> cur # NoCall
    /\ main = "send" => cur.id = Len(ran)

\* Three functions of three goroutines, submitted in all seven ways but
\* those of 2 and 3 first, were run in the order they were sent.
C19_Witness ==
    /\ Len(ran) = 3
    /\ gor[1].id = 3 /\ gor[2].id = 1 /\ gor[3].id = 2
    /\ gor[1].kind = "DoGLErr" /\ gor[2].kind = "DoNoBlock" /\ gor[3].kind = "DoValGLErr"

\* The kinds of call C20 is about.
Blocking == {"Do", "DoErr", "DoVal", "DoErrGLErr", "DoValGLErr"}

\* C20: a goroutine in Do, DoErr, DoVal, DoErrGLErr or DoValGLErr while the
\* loop of Run is running returns in the end, unless run finishes first.
C20_CallsReturn ==
    \A c \in Goroutines :
        (Looping /\ ~done /\ gor[c].pc \in {"send", "recv"} /\ gor[c].kind \in Blocking)
            ~> (gor[c].pc = "idle" \/ done)

\* Three goroutines were in calls when callQueue held two closures, one of
\* them blocked in its send, and all three have returned.
C20_Witness ==
    /\ ~done
    /\ Len(ran) = 3
    /\ \A c \in Goroutines : gor[c].pc = "idle" /\ gor[c].kind \in Blocking
    /\ gor[1].kind = "DoErrGLErr"

====
